---- MODULE Spec2Model ----
(***************************************************************************)
(* Model of package format (src/format/print.go) of insomn14/amass: the    *)
(* record fold and file report of PrintEnumerationSummary, the netblock    *)
(* statistics of UpdateSummaryData, and the censor functions.              *)
(*                                                                         *)
(* A Go string is a sequence of characters, each a one-character TLA+      *)
(* string.  The package strings is modelled by what its functions do.      *)
(***************************************************************************)
EXTENDS Integers, Sequences, FiniteSets, TLC

VARIABLES
    pc,        \* position of PrintEnumerationSummary: "fold", "save", "asn", "fqdn",
               \* "done", "panic" ("idle" where it does not run)
    asns,      \* print.go:64  ASN id -> [organization, netblocks, fqdns]
    fqdns,     \* print.go:65  FQDN label -> resolved target label
    record,    \* print.go:68  the record the loop processed last
    nrecords,  \* number of records the loop has consumed
    prevAsns,  \* history: the value of asns before the last record
    asnSummary, \* print.go:222  the map UpdateSummaryData updates: ASN -> [Name, Netblocks]
    processed, \* history: the address records UpdateSummaryData has been given
    cpc,       \* position of the censor run: "start", "once", "twice", "panic"
    variant,   \* the censor function applied: "domain", "ip", "netblock"
    input,     \* its argument
    once,      \* the result of the first application
    twice,     \* the result of applying it to that result
    call,      \* which invocation of PrintEnumerationSummary runs: "first", "second"
    demo,      \* the demo flag of the run (print.go:248, 351)
    target,    \* print.go:62   the target argument
    today,     \* print.go:152  the date time.Now() gives
    fs,        \* the working directory: file name -> content
    filename,  \* print.go:153
    remAsns,   \* print.go:195  the ASNs the range loop has yet to visit
    remFqdns,  \* print.go:205  the FQDNs the inner range loop has yet to visit
    err,       \* print.go:154  what SaveASNDetailsToFile returns: "nil", "create", "write"
    replaced   \* history: what the file held when os.Create opened it, "none" if absent

foldVars   == <<pc, asns, fqdns, record, nrecords, prevAsns>>
aggVars    == <<asnSummary, processed>>
censorVars == <<cpc, variant, input, once, twice>>
saveVars   == <<call, demo, target, today, fs, filename, remAsns, remFqdns, err, replaced>>
vars == <<foldVars, aggVars, censorVars, saveVars>>

\* ------------------------------------------------------------ bounds
MaxRecords   == 3   \* records given to one fold
MaxReported  == 2   \* records given to one fold that is followed by the file report
MaxAddrs     == 2   \* addresses of one requests.Output
MaxProcessed == 3   \* addresses given to UpdateSummaryData altogether
MaxLen       == 4   \* characters of a censored string

\* ------------------------------------------------------------ package strings
\* strings.HasSuffix
HasSuffix(s, suf) ==
    Len(s) >= Len(suf) /\ SubSeq(s, Len(s) - Len(suf) + 1, Len(s)) = suf

\* strings.TrimSuffix
TrimSuffix(s, suf) ==
    IF HasSuffix(s, suf) THEN SubSeq(s, 1, Len(s) - Len(suf)) ELSE s

\* strings.TrimSpace (the only white space of the alphabet is the blank)
RECURSIVE TrimLeft(_)
TrimLeft(s) ==
    IF s # <<>> /\ Head(s) = " " THEN TrimLeft(Tail(s)) ELSE s

RECURSIVE TrimRight(_)
TrimRight(s) ==
    IF s # <<>> /\ s[Len(s)] = " " THEN TrimRight(SubSeq(s, 1, Len(s) - 1)) ELSE s

TrimSpace(s) == TrimRight(TrimLeft(s))

\* strings.Index on a string of one-byte characters: the 0-based offset of
\* the first occurrence of sep, -1 when there is none
Index(s, sep) ==
    LET hits == { i \in 0 .. (Len(s) - Len(sep)) : SubSeq(s, i + 1, i + Len(sep)) = sep }
    IN  IF hits = {} THEN -1 ELSE CHOOSE i \in hits : \A j \in hits : i <= j

\* strings.Split with a non-empty separator: the substrings between the
\* non-overlapping occurrences of sep, found left to right
RECURSIVE Split(_, _)
Split(s, sep) ==
    LET i == Index(s, sep)
    IN  IF i < 0 THEN <<s>>
        ELSE <<SubSeq(s, 1, i)>> \o Split(SubSeq(s, i + Len(sep) + 1, Len(s)), sep)

\* strings.Join
RECURSIVE Join(_, _)
Join(elems, sep) ==
    IF elems = <<>> THEN <<>>
    ELSE IF Len(elems) = 1 THEN elems[1]
    ELSE elems[1] \o sep \o Join(Tail(elems), sep)

\* ------------------------------------------------------------ literals
Sep             == <<" ", "-", "-", ">", " ">>
Arrow           == <<"-", "-", ">">>
Blank           == <<" ">>
TagASN          == <<"(", "A", "S", "N", ")">>
TagRIR          == <<"(", "R", "I", "R", "O", "r", "g", "a", "n", "i", "z", "a", "t", "i", "o", "n", ")">>
TagNetblock     == <<"(", "N", "e", "t", "b", "l", "o", "c", "k", ")">>
TagFQDN         == <<"(", "F", "Q", "D", "N", ")">>
TagIPAddress    == <<"(", "I", "P", "A", "d", "d", "r", "e", "s", "s", ")">>
SpTagASN        == Blank \o TagASN
SpTagRIR        == Blank \o TagRIR
SpTagNetblock   == Blank \o TagNetblock
SpTagFQDN       == Blank \o TagFQDN
SpTagIPAddress  == Blank \o TagIPAddress

\* ------------------------------------------------------------ the record fold
\* a faulty variant: the separator without its blanks
RecordPartsNoBlanks(rec) == Split(rec, Arrow)

\* print.go:69
RecordParts(rec) == Split(rec, Sep)

\* print.go:70
Malformed(parts) == Len(parts) < 3

\* a faulty variant: the loop over the ASNs stops after the first one
AttachNetblockFirstOnly(m, ntblocks) ==
    IF DOMAIN m = {} THEN m
    ELSE LET first == CHOOSE a \in DOMAIN m : TRUE
         IN  [a \in DOMAIN m |->
                IF a = first THEN [m[a] EXCEPT !.netblocks = Append(@, ntblocks)] ELSE m[a]]

\* print.go:81-83: the netblock goes to every ASN of the index
AttachNetblock(m, ntblocks) ==
    [a \in DOMAIN m |-> [m[a] EXCEPT !.netblocks = Append(@, ntblocks)]]

\* a faulty variant: an entry that exists keeps its collections
SetASNKeepCollections(m, asnID, org) ==
    [a \in DOMAIN m \cup {asnID} |->
        IF a = asnID
        THEN IF a \in DOMAIN m
             THEN [m[a] EXCEPT !.organization = org]
             ELSE [organization |-> org, netblocks |-> <<>>, fqdns |-> <<>>]
        ELSE m[a]]

\* print.go:88-92: the entry is created or replaced
SetASN(m, asnID, org) ==
    [a \in DOMAIN m \cup {asnID} |->
        IF a = asnID
        THEN [organization |-> org, netblocks |-> <<>>, fqdns |-> <<>>]
        ELSE m[a]]

\* print.go:99-101
AttachFQDN(m, left) ==
    [a \in DOMAIN m |-> [m[a] EXCEPT !.fqdns = Append(@, left)]]

\* print.go:97, 103: fqdns[left] = value
SetFQDN(f, left, value) ==
    [k \in DOMAIN f \cup {left} |-> IF k = left THEN value ELSE f[k]]

\* print.go:68-106, one iteration of the loop: the index after the record,
\* fault when the slice expression of line 85 is out of range
FoldRecord(m, f, rec) ==
    LET parts == RecordParts(rec)
        same  == [asns |-> m, fqdns |-> f, fault |-> FALSE]
    IN  IF Malformed(parts) THEN same
        ELSE
        LET left  == TrimSpace(parts[1])
            value == TrimSpace(parts[3])
        IN  IF HasSuffix(value, SpTagNetblock)
            THEN [same EXCEPT !.asns = AttachNetblock(m, TrimSuffix(value, SpTagNetblock))]
            ELSE IF HasSuffix(left, TagASN)
            THEN IF Len(left) - Len(SpTagASN) < 0
                 THEN [same EXCEPT !.fault = TRUE]
                 ELSE
                 LET asnID      == SubSeq(left, 1, Len(left) - Len(SpTagASN))
                     asnDetails == Split(value, Blank)
                 IN  IF Len(asnDetails) >= 2 /\ HasSuffix(value, TagRIR)
                     THEN [same EXCEPT !.asns = SetASN(m, asnID, TrimSuffix(value, SpTagRIR))]
                     ELSE same
            ELSE IF HasSuffix(left, TagFQDN)
            THEN IF HasSuffix(left, TagFQDN) /\ HasSuffix(value, TagIPAddress)
                 THEN [same EXCEPT !.fqdns = SetFQDN(f, left, value),
                                   !.asns  = AttachFQDN(m, left)]
                 ELSE [same EXCEPT !.fqdns = SetFQDN(f, left, value)]
            ELSE same

\* ------------------------------------------------------------ inputs
Lefts ==
    { <<"1">> \o SpTagASN,
      <<"2">> \o SpTagASN \o Blank,
      TagASN,
      <<"1", "2">> \o TagASN,
      <<"a", ".", "b">> \o SpTagFQDN,
      <<"x">> }

Rights ==
    { <<"O">> \o SpTagRIR,
      <<"P", " ", "Q">> \o SpTagRIR,
      <<"P">> \o TagRIR,
      <<"9", "/", "8">> \o SpTagNetblock,
      TagNetblock,
      <<"9", ".", "9">> \o SpTagIPAddress,
      <<"c", ".", "d">> \o SpTagFQDN,
      <<"z">> }

Middle == <<"i", "s">>

\* lines of three segments
Triples == { l \o Sep \o Middle \o Sep \o r : l \in Lefts, r \in Rights }

\* lines of fewer than three segments, and one of four
ShortLines ==
    { <<>>,
      <<"9", "/", "8">> \o SpTagNetblock,
      <<"1">> \o SpTagASN \o Sep \o <<"O">> \o SpTagRIR,
      <<"1">> \o SpTagASN \o Sep \o Arrow \o Blank \o <<"O">> \o SpTagRIR,
      <<"2">> \o SpTagASN \o <<" ">> \o Arrow \o Sep \o <<"9", "/", "8">> \o SpTagNetblock }

LongLines ==
    { <<"2">> \o SpTagASN \o Sep \o Middle \o Sep \o <<"O">> \o SpTagRIR \o Sep \o <<"z">> }

Lines == Triples \cup ShortLines \cup LongLines

\* ------------------------------------------------------------ PrintEnumerationSummary
FoldIdle ==
    /\ pc = "idle"
    /\ asns = <<>>
    /\ fqdns = <<>>
    /\ record = <<>>
    /\ nrecords = 0
    /\ prevAsns = <<>>

AggIdle == asnSummary = <<>> /\ processed = <<>>

CensorIdle ==
    /\ cpc = "idle"
    /\ variant = "none"
    /\ input = <<>>
    /\ once = <<>>
    /\ twice = <<>>

SaveIdle ==
    /\ call = "first"
    /\ demo = FALSE
    /\ target = <<>>
    /\ today = <<>>
    /\ fs = <<>>
    /\ filename = <<>>
    /\ remAsns = {}
    /\ remFqdns = {}
    /\ err = "nil"
    /\ replaced = "none"

\* print.go:64-65: the maps are made empty
InitFold ==
    /\ pc = "fold"
    /\ asns = <<>>
    /\ fqdns = <<>>
    /\ record = <<>>
    /\ nrecords = 0
    /\ prevAsns = <<>>
    /\ AggIdle
    /\ CensorIdle
    /\ SaveIdle

\* print.go:68-106: the loop takes the next record
FoldStep(LineSet, max) ==
    /\ pc = "fold"
    /\ nrecords < max
    /\ \E rec \in LineSet :
          LET r == FoldRecord(asns, fqdns, rec)
          IN  /\ record' = rec
              /\ nrecords' = nrecords + 1
              /\ prevAsns' = asns
              /\ asns' = r.asns
              /\ fqdns' = r.fqdns
              /\ pc' = IF r.fault THEN "panic" ELSE "fold"
    /\ UNCHANGED <<aggVars, censorVars, saveVars>>

\* print.go:106: the records are exhausted; the file report follows
\* (SpecReport), SpecFold stops here
FoldDone ==
    /\ pc = "fold"
    /\ pc' = "save"
    /\ UNCHANGED <<asns, fqdns, record, nrecords, prevAsns, aggVars, censorVars, saveVars>>

FoldNext == FoldStep(Lines, MaxRecords) \/ FoldDone

SpecFold == InitFold /\ [][FoldNext]_vars

\* ------------------------------------------------------------ claims on the fold
\* The segments of a record are those of its split on the fixed separator; the
\* left label is the first and the right ("final") label the third, trimmed,
\* as RecordParser reads them.  A kind tag is the trailing " (Kind)".
Segments(rec) == Split(rec, Sep)
LeftLabel(rec) == TrimSpace(Segments(rec)[1])
RightLabel(rec) == TrimSpace(Segments(rec)[3])

\* the step consumed a record
Consumed == nrecords' = nrecords + 1

IsNetblockRecord(rec) ==
    Len(Segments(rec)) >= 3 /\ HasSuffix(RightLabel(rec), SpTagNetblock)

IsASNOrgRecord(rec) ==
    /\ Len(Segments(rec)) >= 3
    /\ HasSuffix(LeftLabel(rec), SpTagASN)
    /\ HasSuffix(RightLabel(rec), SpTagRIR)
    /\ ~HasSuffix(RightLabel(rec), SpTagNetblock)

StripTag(label, tag) == SubSeq(label, 1, Len(label) - Len(tag))

\* C1: a record whose final segment ends with the Netblock tag appends the
\* netblock, tag stripped, to the netblocks of every ASN of the index and
\* changes nothing else (keys, organizations, FQDN collections, FQDN index);
\* an entry that a later record creates starts with no netblock.
C1_NetblockFanOut ==
    [][ /\ (Consumed /\ IsNetblockRecord(record')) =>
              /\ pc' = "fold"
              /\ DOMAIN asns' = DOMAIN asns
              /\ \A a \in DOMAIN asns :
                    /\ asns'[a].netblocks =
                          asns[a].netblocks \o <<StripTag(RightLabel(record'), SpTagNetblock)>>
                    /\ asns'[a].organization = asns[a].organization
                    /\ asns'[a].fqdns = asns[a].fqdns
              /\ fqdns' = fqdns
        /\ \A a \in DOMAIN asns' \ DOMAIN asns : asns'[a].netblocks = <<>>
      ]_vars

\* C1 witness: a netblock record reached two ASNs at once
C1_Witness ==
    /\ pc = "fold"
    /\ nrecords = 3
    /\ IsNetblockRecord(record)
    /\ Cardinality(DOMAIN asns) = 2
    /\ \A a \in DOMAIN asns :
          asns[a].netblocks = prevAsns[a].netblocks \o <<<<"9", "/", "8">>>>

\* C2: a line of fewer than three segments leaves the ASN mapping and the
\* FQDN index as they were.
C2_ShortLineNoMutation ==
    [][ (Consumed /\ Len(Segments(record')) < 3) =>
            (asns' = asns /\ fqdns' = fqdns /\ pc' = "fold") ]_vars

\* C2 witness: a short line that carries kind tags met a non-empty index
C2_Witness ==
    /\ pc = "fold"
    /\ nrecords = 3
    /\ Len(Segments(record)) = 2
    /\ HasSuffix(record, SpTagNetblock)
    /\ DOMAIN asns # {}
    /\ DOMAIN fqdns # {}
    /\ asns = prevAsns

\* C3: a record of an ASN-tagged left label and a RIROrganization-tagged
\* final label sets the entry of that ASN to the extracted organization with
\* empty netblock and FQDN collections, replacing an entry that exists, and
\* leaves every other entry and the FQDN index alone.
C3_ASNOrgSetsEntry ==
    [][ (Consumed /\ IsASNOrgRecord(record')) =>
            LET id  == StripTag(LeftLabel(record'), SpTagASN)
                org == StripTag(RightLabel(record'), SpTagRIR)
            IN  /\ pc' = "fold"
                /\ DOMAIN asns' = DOMAIN asns \cup {id}
                /\ asns'[id] = [organization |-> org, netblocks |-> <<>>, fqdns |-> <<>>]
                /\ \A a \in DOMAIN asns \ {id} : asns'[a] = asns[a]
                /\ fqdns' = fqdns ]_vars

\* C3 witness: the record replaced an entry that held a netblock
C3_Witness ==
    /\ pc = "fold"
    /\ IsASNOrgRecord(record)
    /\ LET id == StripTag(LeftLabel(record), SpTagASN)
       IN  /\ id \in DOMAIN prevAsns
           /\ prevAsns[id].netblocks # <<>>
           /\ prevAsns[id].organization # asns[id].organization
           /\ asns[id].netblocks = <<>>

\* C4: the fold classifies every line without a runtime fault.
C4_FoldNeverFaults == pc # "panic"


\* ------------------------------------------------------------ UpdateSummaryData
ASNIds       == {64512, 15133}
CIDRStrs     == {"", "10.0.0.0/24", "93.184.0.0/16"}
Descriptions == {"Akamai", "Private"}

\* requests.AddressInfo, the fields UpdateSummaryData reads
AddressInfos == [ASN : ASNIds, CIDRStr : CIDRStrs, Description : Descriptions]

\* the sequences over S of length at most n
RECURSIVE SeqsUpTo(_, _)
SeqsUpTo(S, n) ==
    IF n = 0 THEN {<<>>}
    ELSE LET shorter == SeqsUpTo(S, n - 1)
         IN  shorter \cup { Append(q, x) : q \in shorter, x \in S }

\* a Go map read: the zero value for a missing key
Counter(netblocks, cidr) ==
    IF cidr \in DOMAIN netblocks THEN netblocks[cidr] ELSE 0

\* a faulty variant: the test for an empty CIDR is missing
UpdateOneNoSkip(m, addr) ==
    LET found == addr.ASN \in DOMAIN m
        data  == IF found THEN m[addr.ASN]
                 ELSE [Name |-> addr.Description, Netblocks |-> <<>>]
        nb    == data.Netblocks
        nb2   == [c \in DOMAIN nb \cup {addr.CIDRStr} |->
                    IF c = addr.CIDRStr THEN Counter(nb, c) + 1 ELSE nb[c]]
    IN  [a \in DOMAIN m \cup {addr.ASN} |->
            IF a = addr.ASN THEN [data EXCEPT !.Netblocks = nb2] ELSE m[a]]

\* a faulty variant: every record stores its description
UpdateOneRenames(m, addr) ==
    IF addr.CIDRStr = "" THEN m
    ELSE
    LET found == addr.ASN \in DOMAIN m
        data  == IF found THEN [m[addr.ASN] EXCEPT !.Name = addr.Description]
                 ELSE [Name |-> addr.Description, Netblocks |-> <<>>]
        nb    == data.Netblocks
        nb2   == [c \in DOMAIN nb \cup {addr.CIDRStr} |->
                    IF c = addr.CIDRStr THEN Counter(nb, c) + 1 ELSE nb[c]]
    IN  [a \in DOMAIN m \cup {addr.ASN} |->
            IF a = addr.ASN THEN [data EXCEPT !.Netblocks = nb2] ELSE m[a]]

\* print.go:224-237, one iteration of the loop
UpdateOne(m, addr) ==
    IF addr.CIDRStr = "" THEN m
    ELSE
    LET found == addr.ASN \in DOMAIN m
        data  == IF found THEN m[addr.ASN]
                 ELSE [Name |-> addr.Description, Netblocks |-> <<>>]
        nb    == data.Netblocks
        nb2   == [c \in DOMAIN nb \cup {addr.CIDRStr} |->
                    IF c = addr.CIDRStr THEN Counter(nb, c) + 1 ELSE nb[c]]
    IN  [a \in DOMAIN m \cup {addr.ASN} |->
            IF a = addr.ASN THEN [data EXCEPT !.Netblocks = nb2] ELSE m[a]]

\* print.go:223-238
RECURSIVE UpdateAll(_, _)
UpdateAll(m, addrs) ==
    IF addrs = <<>> THEN m ELSE UpdateAll(UpdateOne(m, Head(addrs)), Tail(addrs))

InitAgg ==
    /\ asnSummary = <<>>
    /\ processed = <<>>
    /\ FoldIdle
    /\ CensorIdle
    /\ SaveIdle

\* print.go:222-239: one call, on the map of the calls before it
UpdateSummaryData ==
    /\ \E n \in 0 .. MaxAddrs :
        \E addrs \in SeqsUpTo(AddressInfos, n) :
          /\ Len(processed) + n <= MaxProcessed
          /\ asnSummary' = UpdateAll(asnSummary, addrs)
          /\ processed' = processed \o addrs
    /\ UNCHANGED <<foldVars, censorVars, saveVars>>

AggNext == UpdateSummaryData

SpecAgg == InitAgg /\ [][AggNext]_vars

\* ------------------------------------------------------------ claims on UpdateSummaryData
\* the processed records of ASN a that carry a netblock
WithNetblock(a) ==
    { i \in 1 .. Len(processed) : processed[i].ASN = a /\ processed[i].CIDRStr # "" }

Occurrences(a, c) ==
    Cardinality({ i \in 1 .. Len(processed) :
                    processed[i].ASN = a /\ processed[i].CIDRStr = c })

CountersExact ==
    /\ DOMAIN asnSummary \subseteq ASNIds
    /\ \A a \in ASNIds :
          /\ a \in DOMAIN asnSummary <=> WithNetblock(a) # {}
          /\ a \in DOMAIN asnSummary =>
                /\ "" \notin DOMAIN asnSummary[a].Netblocks
                /\ \A c \in CIDRStrs \ {""} :
                      Counter(asnSummary[a].Netblocks, c) = Occurrences(a, c)

\* the records the step added
Added == SubSeq(processed', Len(processed) + 1, Len(processed'))

\* C5: after any sequence of address records, in one or several calls, the
\* counter of ASN a and CIDR c is the number of processed records of ASN a
\* with that non-empty CIDR; an ASN has an entry exactly when a processed
\* record with a non-empty CIDR carried it; records with an empty CIDR
\* change nothing.
C5_CountersExact ==
    /\ []CountersExact
    /\ [][ (\A i \in 1 .. Len(Added) : Added[i].CIDRStr = "") =>
              asnSummary' = asnSummary ]_vars

\* C5 witness: three records of one ASN and CIDR, with the counter at three
C5_Witness ==
    /\ Len(processed) = 3
    /\ \A i \in 1 .. 3 : processed[i].ASN = 64512 /\ processed[i].CIDRStr = "10.0.0.0/24"
    /\ asnSummary[64512].Netblocks["10.0.0.0/24"] = 3

FirstOf(S) == CHOOSE i \in S : \A j \in S : i <= j

\* C6 as stated: the stored name of an ASN is the description of the first
\* processed record of that ASN.
C6_NameOfFirstRecord ==
    \A a \in DOMAIN asnSummary :
        LET recs == { i \in 1 .. Len(processed) : processed[i].ASN = a }
        IN  asnSummary[a].Name = processed[FirstOf(recs)].Description

NameOfFirstWithNetblock ==
    \A a \in DOMAIN asnSummary :
        /\ WithNetblock(a) # {}
        /\ asnSummary[a].Name = processed[FirstOf(WithNetblock(a))].Description

\* C6 amended: the stored name of an ASN is the description of the first
\* processed record of that ASN that carries a non-empty CIDR, and once
\* stored it never changes.
C6_NameOfFirstWithNetblock ==
    /\ []NameOfFirstWithNetblock
    /\ [][ \A a \in DOMAIN asnSummary :
              a \in DOMAIN asnSummary' /\ asnSummary'[a].Name = asnSummary[a].Name ]_vars

\* C6 witness: the first record of the ASN has no CIDR, the next two carry
\* one and disagree on the description; the first of those two gave the name
C6_Witness ==
    /\ Len(processed) = 3
    /\ \A i \in 1 .. 3 : processed[i].ASN = 15133
    /\ processed[1].CIDRStr = "" /\ processed[1].Description = "Private"
    /\ processed[2].CIDRStr # "" /\ processed[2].Description = "Akamai"
    /\ processed[3].CIDRStr # "" /\ processed[3].Description = "Private"
    /\ asnSummary[15133].Name = "Akamai"


\* ------------------------------------------------------------ the censor functions
\* The characters of a censored string; E2 stands for a character of two
\* bytes in UTF-8 (any non-ASCII letter), the others take one byte.
Chars == {"a", "x", ".", "/", "-", " ", "E2"}

ByteWidth(ch) == IF ch = "E2" THEN 2 ELSE 1

\* len(input): the length in bytes
RECURSIVE ByteLen(_)
ByteLen(s) == IF s = <<>> THEN 0 ELSE ByteWidth(Head(s)) + ByteLen(Tail(s))

\* strings.Index(input, ch) for a one-byte ch: the byte offset of its first
\* occurrence, -1 when there is none
ByteIndex(s, ch) ==
    LET hits == { i \in 1 .. Len(s) : s[i] = ch }
    IN  IF hits = {} THEN -1
        ELSE ByteLen(SubSeq(s, 1, (CHOOSE i \in hits : \A j \in hits : i <= j) - 1))

\* strings.LastIndex(input, ch)
ByteLastIndex(s, ch) ==
    LET hits == { i \in 1 .. Len(s) : s[i] = ch }
    IN  IF hits = {} THEN -1
        ELSE ByteLen(SubSeq(s, 1, (CHOOSE i \in hits : \A j \in hits : i >= j) - 1))

\* print.go:339-342: the characters the loop passes over
Kept == {".", "/", "-", " "}

\* print.go:338-346: the loop from index i (0-based, as in the source) up
\* to end; runes[i] outside the slice is a run-time panic
RECURSIVE CensorLoop(_, _, _)
CensorLoop(runes, i, end) ==
    IF ~(i < end) THEN [fault |-> FALSE, out |-> runes]
    ELSE IF i < 0 \/ i >= Len(runes) THEN [fault |-> TRUE, out |-> runes]
    ELSE CensorLoop(IF runes[i + 1] \in Kept THEN runes ELSE [runes EXCEPT ![i + 1] = "x"],
                    i + 1, end)

\* print.go:336-348; []rune(input) has one element per character
censorString(in, start, end) == CensorLoop(in, start, end)

\* print.go:324-326
censorDomain(in) == censorString(in, ByteIndex(in, "."), ByteLen(in))

\* print.go:328-330
censorIP(in) == censorString(in, 0, ByteLastIndex(in, "."))

\* print.go:332-334
censorNetBlock(in) == censorString(in, 0, ByteIndex(in, "/"))

Variants == {"domain", "ip", "netblock"}

Censor(v, in) ==
    CASE v = "domain"   -> censorDomain(in)
      [] v = "ip"       -> censorIP(in)
      [] v = "netblock" -> censorNetBlock(in)

InitCensor ==
    /\ cpc = "start"
    /\ variant \in Variants
    /\ input \in SeqsUpTo(Chars, MaxLen)
    /\ once = <<>>
    /\ twice = <<>>
    /\ FoldIdle
    /\ AggIdle
    /\ SaveIdle

\* the censor function is applied to the input
CensorOnce ==
    /\ cpc = "start"
    /\ LET r == Censor(variant, input)
       IN  /\ cpc' = IF r.fault THEN "panic" ELSE "once"
           /\ once' = IF r.fault THEN once ELSE r.out
    /\ UNCHANGED <<variant, input, twice, foldVars, aggVars, saveVars>>

\* the censor function is applied to its own result
CensorTwice ==
    /\ cpc = "once"
    /\ LET r == Censor(variant, once)
       IN  /\ cpc' = IF r.fault THEN "panic" ELSE "twice"
           /\ twice' = IF r.fault THEN twice ELSE r.out
    /\ UNCHANGED <<variant, input, once, foldVars, aggVars, saveVars>>

CensorNext == CensorOnce \/ CensorTwice

SpecCensor == InitCensor /\ [][CensorNext]_vars

\* ------------------------------------------------------------ claims on the censor functions
\* C7: for every input and each variant, the second application returns what
\* the first returned.
C7_CensorIdempotent ==
    /\ cpc # "panic"
    /\ cpc = "twice" => twice = once

\* what holds of the code: the second application never faults and returns
\* what the first returned, whenever the first returned at all
IdempotentWhereDefined ==
    /\ cpc = "twice" => twice = once
    /\ cpc = "panic" => once = <<>> /\ twice = <<>>

Separator(v) == IF v = "netblock" THEN "/" ELSE "."

\* the string with the whole of it as the mask window
MaskAll(s) == [i \in 1 .. Len(s) |-> IF s[i] \in Kept THEN s[i] ELSE "x"]

\* C8: on an input without the defining separator the censor function
\* returns, with no access out of bounds, the input masked over its whole
\* length.
C8_NoSeparatorWholeWindow ==
    (cpc \in {"once", "panic"} /\ \A i \in 1 .. Len(input) : input[i] # Separator(variant)) =>
        (cpc = "once" /\ once = MaskAll(input))

\* what the code does there: censorDomain faults, and the other two return
\* the input as it is
NoSeparatorBehaviour ==
    (cpc \in {"once", "panic"} /\ \A i \in 1 .. Len(input) : input[i] # Separator(variant)) =>
        IF variant = "domain" THEN cpc = "panic" ELSE cpc = "once" /\ once = input


\* ------------------------------------------------------------ the file report
\* strconv.Itoa / the verb %d, for a number that is not negative
Digit(d) ==
    CASE d = 0 -> "0" [] d = 1 -> "1" [] d = 2 -> "2" [] d = 3 -> "3" [] d = 4 -> "4"
      [] d = 5 -> "5" [] d = 6 -> "6" [] d = 7 -> "7" [] d = 8 -> "8" [] d = 9 -> "9"

RECURSIVE Itoa(_)
Itoa(n) == IF n < 10 THEN <<Digit(n)>> ELSE Itoa(n \div 10) \o <<Digit(n % 10)>>

NL  == "\n"
TAB == "\t"

\* print.go:153: fmt.Sprintf("%s_%s.txt", target, currentDate)
FileName(tgt, date) == tgt \o <<"_">> \o date \o <<".", "t", "x", "t">>

\* print.go:197-199: "ASN: %s - %s\n\tNetblocks: %s\n\tSubdomains: %d\n"
ASNHeader(m, f, asnID) ==
    <<"A", "S", "N", ":", " ">> \o asnID \o <<" ", "-", " ">> \o m[asnID].organization
    \o <<NL, TAB, "N", "e", "t", "b", "l", "o", "c", "k", "s", ":", " ">>
    \o Join(m[asnID].netblocks, <<",", " ">>)
    \o <<NL, TAB, "S", "u", "b", "d", "o", "m", "a", "i", "n", "s", ":", " ">>
    \o Itoa(Cardinality(DOMAIN f)) \o <<NL>>

\* a Go map read: the empty string for a missing key
Lookup(f, k) == IF k \in DOMAIN f THEN f[k] ELSE <<>>

\* print.go:206-212: "%s: %s\n"
FQDNLine(f, fqdn) ==
    LET ip    == f[fqdn]
        shown == IF HasSuffix(ip, TagFQDN) THEN Lookup(f, ip) ELSE ip
    IN  TrimSuffix(fqdn, SpTagFQDN) \o <<":", " ">> \o TrimSuffix(shown, SpTagIPAddress) \o <<NL>>

\* a faulty variant: the file is opened for appending and keeps what it held
CreateFileKeeping(files, name) ==
    [k \in DOMAIN files \cup {name} |-> IF k \in DOMAIN files THEN files[k] ELSE <<>>]

\* print.go:189: os.Create makes the file, or truncates the one that exists
CreateFile(files, name) ==
    [k \in DOMAIN files \cup {name} |-> IF k = name THEN <<>> ELSE files[k]]

\* print.go:199, 213: file.WriteString puts the text at the end of the file
WriteString(files, name, text) == [files EXCEPT ![name] = @ \o text]

Targets == { <<"t">>, <<"u">> }
Date1   == <<"2", "0", "2", "6", "-", "1", "1", "-", "0", "1">>
Date2   == <<"2", "0", "2", "6", "-", "1", "1", "-", "0", "2">>
LaterOrSame(date) == IF date = Date1 THEN {Date1, Date2} ELSE {Date2}

ReportLines ==
    { <<"1">> \o SpTagASN \o Sep \o Middle \o Sep \o <<"O">> \o SpTagRIR,
      <<"2">> \o SpTagASN \o Sep \o Middle \o Sep \o <<"P", " ", "Q">> \o SpTagRIR,
      <<"x">> \o Sep \o Middle \o Sep \o <<"9", "/", "8">> \o SpTagNetblock,
      <<"a", ".", "b">> \o SpTagFQDN \o Sep \o Middle \o Sep \o <<"9", ".", "9">> \o SpTagIPAddress,
      <<"c", ".", "d">> \o SpTagFQDN \o Sep \o Middle \o Sep \o <<"a", ".", "b">> \o SpTagFQDN }

InitReport ==
    /\ pc = "fold"
    /\ asns = <<>>
    /\ fqdns = <<>>
    /\ record = <<>>
    /\ nrecords = 0
    /\ prevAsns = <<>>
    /\ call = "first"
    /\ demo \in BOOLEAN
    /\ target \in Targets
    /\ today = Date1
    /\ fs = <<>>
    /\ filename = <<>>
    /\ remAsns = {}
    /\ remFqdns = {}
    /\ err = "nil"
    /\ replaced = "none"
    /\ AggIdle
    /\ CensorIdle

\* print.go:152-153, 189-192: the file name is made and the file created;
\* os.Create may fail
Create ==
    /\ pc = "save"
    /\ filename' = FileName(target, today)
    /\ \/ /\ fs' = CreateFile(fs, filename')
          /\ replaced' = IF filename' \in DOMAIN fs THEN fs[filename'] ELSE "none"
          /\ remAsns' = DOMAIN asns
          /\ pc' = "asn"
          /\ UNCHANGED err
       \/ /\ err' = "create"
          /\ pc' = "done"
          /\ UNCHANGED <<fs, replaced, remAsns>>
    /\ UNCHANGED <<asns, fqdns, record, nrecords, prevAsns, call, demo, target, today,
                   remFqdns, aggVars, censorVars>>

\* print.go:195-202: the range loop visits an ASN, in no fixed order, and
\* writes its header; the write may fail, and then the function returns the
\* error at once (a failed write is taken to have written nothing)
WriteASN ==
    /\ pc = "asn"
    /\ \E asnID \in remAsns :
          \/ /\ fs' = WriteString(fs, filename, ASNHeader(asns, fqdns, asnID))
             /\ remAsns' = remAsns \ {asnID}
             /\ remFqdns' = DOMAIN fqdns
             /\ pc' = IF DOMAIN fqdns = {} THEN "asn" ELSE "fqdn"
             /\ UNCHANGED err
          \/ /\ err' = "write"
             /\ pc' = "done"
             /\ UNCHANGED <<fs, remAsns, remFqdns>>
    /\ UNCHANGED <<asns, fqdns, record, nrecords, prevAsns, call, demo, target, today,
                   filename, replaced, aggVars, censorVars>>

\* print.go:205-216: the inner range loop visits an FQDN, in no fixed order,
\* and writes its line; the write may fail
WriteFQDN ==
    /\ pc = "fqdn"
    /\ \E fqdn \in remFqdns :
          \/ /\ fs' = WriteString(fs, filename, FQDNLine(fqdns, fqdn))
             /\ remFqdns' = remFqdns \ {fqdn}
             /\ pc' = IF remFqdns' = {} THEN "asn" ELSE "fqdn"
             /\ UNCHANGED err
          \/ /\ err' = "write"
             /\ pc' = "done"
             /\ UNCHANGED <<fs, remFqdns>>
    /\ UNCHANGED <<asns, fqdns, record, nrecords, prevAsns, call, demo, target, today,
                   filename, remAsns, replaced, aggVars, censorVars>>

\* print.go:218, 156-158: every ASN is written, the function returns nil
SaveReturn ==
    /\ pc = "asn"
    /\ remAsns = {}
    /\ pc' = "done"
    /\ err' = "nil"
    /\ UNCHANGED <<asns, fqdns, record, nrecords, prevAsns, call, demo, target, today,
                   fs, filename, remAsns, remFqdns, replaced, aggVars, censorVars>>

\* print.go:62-65: PrintEnumerationSummary is called again, the same day or
\* the next, on the same working directory
InvokeAgain ==
    /\ pc = "done"
    /\ call = "first"
    /\ call' = "second"
    /\ pc' = "fold"
    /\ asns' = <<>>
    /\ fqdns' = <<>>
    /\ record' = <<>>
    /\ nrecords' = 0
    /\ prevAsns' = <<>>
    /\ target' \in Targets
    /\ today' \in LaterOrSame(today)
    /\ filename' = <<>>
    /\ err' = "nil"
    /\ replaced' = "none"
    /\ UNCHANGED <<demo, fs, remAsns, remFqdns, aggVars, censorVars>>

ReportNext ==
    \/ FoldStep(ReportLines, MaxReported)
    \/ FoldDone
    \/ Create
    \/ WriteASN
    \/ WriteFQDN
    \/ SaveReturn
    \/ InvokeAgain

SpecReport == InitReport /\ [][ReportNext]_vars

\* ------------------------------------------------------------ claims on the file report
Contains(hay, needle) == Index(hay, needle) >= 0

\* the orders in which a range loop may visit the keys S
Orders(S) ==
    { q \in [1 .. Cardinality(S) -> S] : \A x \in S : \E i \in DOMAIN q : q[i] = x }

RECURSIVE Concat(_)
Concat(texts) == IF texts = <<>> THEN <<>> ELSE Head(texts) \o Concat(Tail(texts))

\* the texts a report of the index (m, f) may consist of: a block per ASN,
\* its header and a line per FQDN, the ASNs and each block's FQDNs in any order
Reports(m, f) ==
    { Concat([i \in 1 .. Cardinality(DOMAIN m) |->
                ASNHeader(m, f, ao[i])
                \o Concat([j \in 1 .. Cardinality(DOMAIN f) |-> FQDNLine(f, fo[ao[i]][j])])])
      : ao \in Orders(DOMAIN m), fo \in [DOMAIN m -> Orders(DOMAIN f)] }

Saved == pc = "done" /\ err = "nil"

\* C9: with the demo flag true no domain name, IP address or CIDR reaches
\* the persisted file unmasked (here: no netblock of the index that
\* censorNetBlock would change is in the file as it is).
C9_DemoRedactsFile ==
    (demo /\ Saved) =>
        \A a \in DOMAIN asns : \A i \in DOMAIN asns[a].netblocks :
            LET nb == asns[a].netblocks[i]
            IN  censorNetBlock(nb).out # nb => ~Contains(fs[filename], nb)

\* C10: when a call completes successfully the file holds exactly the
\* report of that call's input, also when an earlier call with the same
\* target and date had written the file.
C10_FileIsReportOfLastCall ==
    Saved => fs[filename] \in Reports(asns, fqdns)

\* C10 witness: the second call found the file of the first, which held
\* another report, and completed
C10_Witness ==
    /\ call = "second"
    /\ Saved
    /\ replaced # "none"
    /\ replaced # <<>>
    /\ fs[filename] # <<>>
    /\ ~Contains(fs[filename], replaced)
    /\ ~Contains(replaced, fs[filename])

====
